---------------------------- MODULE Spec2Model ----------------------------
(***************************************************************************)
(* cronch / h3ingest.py: Sentinel-2 tiles binned into H3 hexagons.         *)
(*                                                                         *)
(* main() searches the catalog and calls process_one_item on items[0].     *)
(* process_one_item loops over BAND_GROUPS; each iteration is one          *)
(* (tile, band_group) unit: load, assert resolution, coverage numbers,     *)
(* flatten + reproject + bin, groupby-mean-int16, print, to_parquet.       *)
(* There is no try/except anywhere: an exception in any step leaves        *)
(* process_one_item and main.  After the loop comes breakpoint().          *)
(*                                                                         *)
(* Numbers: metres, square metres and pixel values are integers; a Python  *)
(* float quotient is kept as an exact reduced fraction <<num, den>>.       *)
(***************************************************************************)
EXTENDS Integers, Sequences, FiniteSets

VARIABLES
    optimized,  \* the interpreter runs with -O / PYTHONOPTIMIZE: no asserts
    items,      \* catalog.search(...).item_collection(): sequence of tile ids
    foot,       \* footprint of items[0]: area (line 74), cells per level (94)
    pc,         \* where main() is
    gi,         \* position of the BAND_GROUPS loop (line 79)
    step,       \* per unit <<tile, band_group>>: the step it is in
    reason,     \* per unit: the exception that ended it, or "none"
    attempts,   \* per unit: how many times its loop body was entered
    measured,   \* per unit: resolution read from the loaded GeoTransform
    data,       \* local `data` (line 85)
    metrics,    \* locals num_pixels, valid_frac, ratio (lines 90-95)
    rows,       \* local `df` after line 112 (one row per pixel and band)
    df,         \* local `df` after line 119 (one row per hex and band)
    log,        \* lines printed at line 129
    files,      \* the file system: path -> file
    wopen,      \* to_parquet has opened its path and not yet closed it
    written     \* units whose to_parquet call returned

vars == <<optimized, items, foot, pc, gi, step, reason, attempts, measured, data,
          metrics, rows, df, log, files, wopen, written>>

----------------------------------------------------------------------------
(* Bounds of the model *)

MaxItems == 2
MaxRows == 4

(* Program constants *)

Int16Min == -32768
Int16Max == 32767
Int16Mod == 65536

Tiles == {"T1", "T2", "T3"}

BAND_GROUPS ==
    [ vis_nir      |-> [resolution |-> 10, zoom |-> 12,
                        bands |-> <<"B02", "B03", "B04", "B08">>],
      swir_rededge |-> [resolution |-> 20, zoom |-> 11,
                        bands |-> <<"B05", "B06", "B07", "B11", "B12">>] ]

\* (the source's zoom of swir_rededge is the float 11.0, taken by h3 as
\* level 11)

\* BAND_GROUPS.items() iterates in insertion order
GroupOrder == <<"vis_nir", "swir_rededge">>
GroupNames == {"vis_nir", "swir_rededge"}
Levels == {11, 12}

Units == Tiles \X GroupNames

\* lexicographic order of the band names, as groupby sorts them
BandSorted == <<"B02", "B03", "B04", "B05", "B06", "B07", "B08", "B11", "B12">>
BandRank(b) == CHOOSE i \in 1..Len(BandSorted) : BandSorted[i] = b

----------------------------------------------------------------------------
(* Arithmetic helpers *)

RECURSIVE GCD(_, _)
GCD(a, b) == IF b = 0 THEN a ELSE GCD(b, a % b)

\* the float quotient n / d (d > 0, n >= 0) as a reduced fraction
Quot(n, d) == LET g == GCD(n, d) IN <<n \div g, d \div g>>

\* float -> integer conversion truncates toward zero
TruncDiv(s, c) == IF s >= 0 THEN s \div c ELSE -((-s) \div c)

----------------------------------------------------------------------------
(* The raster of one band group, as odc.stac.load returns it (line 85).    *)
(* A raster is [res, sx, sy, kind]: the resolution in its GeoTransform,    *)
(* its pixel dimensions, and which pixel values it holds.                  *)

NoData == [res |-> 0, sx |-> 0, sy |-> 0, kind |-> "none"]

RasterKinds == {"example", "bright", "ramp"}
RasterSizes == {<<2, 2>>, <<4, 1>>, <<0, 2>>}

Rasters ==
    { [res |-> r, sx |-> s[1], sy |-> s[2], kind |-> k] :
        r \in {10, 20}, s \in RasterSizes, k \in RasterKinds }

\* Sentinel-2 samples are uint16.  "example": 2469, 2471, 2467, 2469 in
\* every 2 x 2 block; "bright": saturated pixels; "ramp": rising along x.
PixelValue(kind, x, y, band) ==
    CASE kind = "example" -> <<2469, 2471, 2467, 2469>>[2 * (y % 2) + (x % 2) + 1]
      [] kind = "bright"  -> 40000
      [] OTHER            -> 2469 + x

\* data.to_dataframe().drop(...).stack().reset_index()...: one row per
\* (y, x, band), y outermost, the bands innermost
to_dataframe(d, bands) ==
    LET nb == Len(bands)
        n  == d.sx * d.sy * nb
    IN  [ i \in 1..n |->
            LET b == bands[((i - 1) % nb) + 1]
                x == ((i - 1) \div nb) % d.sx
                y == (i - 1) \div (nb * d.sx)
            IN  [x |-> x, y |-> y, band |-> b,
                 value |-> PixelValue(d.kind, x, y, b)] ]

\* df.to_crs("epsg:4326"): raster coordinates to longitude / latitude
to_crs(r) == [lng |-> r.x + 20, lat |-> r.y + 10]

\* h3.latlng_to_cell: the cell of the grid of `level` holding the point;
\* a cell of level 11 spans two cells of level 12 along each axis
CellWidth(level) == IF level = 12 THEN 2 ELSE 4
latlng_to_cell(lat, lng, level) ==
    level * 10000 + (lat \div CellWidth(level)) * 100 + (lng \div CellWidth(level))

\* lines 107-112: a row [hex, band, value] per sample
BinRows(samples, level) ==
    [ i \in 1..Len(samples) |->
        LET g == to_crs(samples[i])
        IN  [hex   |-> latlng_to_cell(g.lat, g.lng, level),
             band  |-> samples[i].band,
             value |-> samples[i].value] ]

----------------------------------------------------------------------------
(* Aggregation, lines 115-119 *)

\* groupby([hex_col, "band"]): the key of a row
GroupKey(r) == <<r.hex, r.band>>

KeyLess(k1, k2) ==
    \/ k1[1] < k2[1]
    \/ k1[1] = k2[1] /\ BandRank(k1[2]) < BandRank(k2[2])

\* position of the group with key k, or the position it is inserted at
GroupPos(groups, k) ==
    Cardinality({ j \in 1..Len(groups) : KeyLess(groups[j].key, k) }) + 1

\* one row added to the groups, which stay sorted by key
AddRow(groups, r) ==
    LET k == GroupKey(r)
        p == GroupPos(groups, k)
    IN  IF p <= Len(groups) /\ groups[p].key = k
        THEN [groups EXCEPT ![p] = [key |-> k, sum |-> @.sum + r.value,
                                     count |-> @.count + 1]]
        ELSE SubSeq(groups, 1, p - 1)
             \o <<[key |-> k, sum |-> r.value, count |-> 1]>>
             \o SubSeq(groups, p, Len(groups))

RECURSIVE GroupRows(_, _, _)
GroupRows(rs, i, groups) ==
    IF i > Len(rs) THEN groups
    ELSE GroupRows(rs, i + 1, AddRow(groups, rs[i]))

\* .astype({"value": "int16"}) of the float mean sum / count: the fraction
\* is dropped, and what does not fit in 16 bits keeps its low 16 bits.
\* No range check is made.  The C conversion behind it is undefined out of
\* range; the means of uint16 samples lie in 0..65535, which fit the 32-bit
\* conversion numpy's builds go through before narrowing, so that for these
\* the low 16 bits are the one outcome.
astype_int16(sum, count) ==
    ((TruncDiv(sum, count) - Int16Min) % Int16Mod) + Int16Min

aggregate(rs) ==
    LET groups == GroupRows(rs, 1, <<>>)
    IN  [ i \in 1..Len(groups) |->
            [hex   |-> groups[i].key[1],
             band  |-> groups[i].key[2],
             value |-> astype_int16(groups[i].sum, groups[i].count)] ]

----------------------------------------------------------------------------
(* Coverage numbers, lines 88-95 *)

\* line 89
num_tile_pixels(d) == d.sx * d.sy

\* a division by res where res**2 is meant
num_pixels_linear(area, res) == Quot(area, res)

\* line 90: area / res**2
num_pixels(area, res) == Quot(area, res * res)

\* line 91: num_pixels / num_tile_pixels
valid_frac(np, ntp) == Quot(np[1], np[2] * ntp)

\* line 95: num_pixels / len(cells)
ratio(np, ncells) == Quot(np[1], np[2] * ncells)

NoMetrics == [num_pixels |-> <<0, 1>>, valid_frac |-> <<0, 1>>, ratio |-> <<0, 1>>]

----------------------------------------------------------------------------
(* The steps of one unit, in the order process_one_item runs them *)

StepOrder ==
    <<"Loading", "Validating", "Diagnosing", "Binning", "Aggregating",
      "Logging", "Writing", "Done">>

StepAfter(s) ==
    StepOrder[(CHOOSE i \in 1..Len(StepOrder) : StepOrder[i] = s) + 1]

Steps == {"NotStarted", "Loading", "Validating", "Diagnosing", "Binning",
          "Aggregating", "Logging", "Writing", "Done", "Failed"}

\* line 133: f"{item.id}.parquet"; the band group is not part of the name
OutputPath(item_id, band_group) == item_id

Paths == { OutputPath(u[1], u[2]) : u \in Units }

NoFile == [state |-> "absent", unit |-> <<>>, records |-> <<>>]

\* line 86: the assert's condition
ResolutionOk(res, d) == res = d.res

\* len(h3.h3shape_to_cells(poly, hex_level)), line 94
NumCells(f, level) == f.ncells[level]

Areas == {250, 800, 3200}
Footprints ==
    { [area |-> a, ncells |-> c] : a \in Areas, c \in [Levels -> {0, 2}] }

\* the catalog's answer: tiles, each at most once
ItemSeqs ==
    UNION { { s \in [1..n -> Tiles] : \A i, j \in 1..n : s[i] = s[j] => i = j }
            : n \in 0..MaxItems }

----------------------------------------------------------------------------
(* State of the run *)

CurGroup == GroupOrder[gi]
CurUnit == <<items[1], CurGroup>>
InLoop == pc = "process" /\ gi <= Len(GroupOrder)
At(s) == InLoop /\ step[CurUnit] = s

Idle ==
    /\ step = [u \in Units |-> "NotStarted"]
    /\ reason = [u \in Units |-> "none"]
    /\ attempts = [u \in Units |-> 0]
    /\ measured = [u \in Units |-> 0]
    /\ data = NoData
    /\ metrics = NoMetrics
    /\ rows = <<>>
    /\ df = <<>>
    /\ log = <<>>
    /\ files = [p \in Paths |-> NoFile]
    /\ wopen = FALSE
    /\ written = {}

Init ==
    /\ optimized \in BOOLEAN
    /\ items \in ItemSeqs
    /\ foot \in Footprints
    /\ pc = "main"
    /\ gi = 1
    /\ Idle

\* an exception leaves the loop, process_one_item and main.  The kinds:
\* AssetUnavailableError is whatever odc.stac.load raises, ProjectionError
\* whatever the CRS handling raises; the others are Python's own names.
Raise(kind) ==
    /\ step' = [step EXCEPT ![CurUnit] = "Failed"]
    /\ reason' = [reason EXCEPT ![CurUnit] = kind]
    /\ pc' = "aborted"

Advance == step' = [step EXCEPT ![CurUnit] = StepAfter(@)]

\* line 156: process_one_item(items[0]); lines 68-76
CallProcess ==
    /\ pc = "main"
    /\ Len(items) > 0
    /\ pc' = "process"
    /\ UNCHANGED <<optimized, items, foot, gi, step, reason, attempts, measured, data,
                   metrics, rows, df, log, files, wopen, written>>

\* line 156 on an empty catalog answer: IndexError
NoItems ==
    /\ pc = "main"
    /\ Len(items) = 0
    /\ pc' = "aborted"
    /\ UNCHANGED <<optimized, items, foot, gi, step, reason, attempts, measured, data,
                   metrics, rows, df, log, files, wopen, written>>

\* lines 79-83: the loop body is entered for the next band group
StartUnit ==
    /\ At("NotStarted")
    /\ step' = [step EXCEPT ![CurUnit] = StepOrder[1]]
    /\ attempts' = [attempts EXCEPT ![CurUnit] = @ + 1]
    /\ UNCHANGED <<optimized, items, foot, pc, gi, reason, measured, data, metrics,
                   rows, df, log, files, wopen, written>>

\* line 85: odc.stac.load returns the raster
Load ==
    /\ At("Loading")
    /\ \E d \in Rasters :
         /\ data' = d
         /\ measured' = [measured EXCEPT ![CurUnit] = d.res]
    /\ Advance
    /\ UNCHANGED <<optimized, items, foot, pc, gi, reason, attempts, metrics, rows, df,
                   log, files, wopen, written>>

\* line 85: the asset cannot be fetched or decoded
LoadFail ==
    /\ At("Loading")
    /\ Raise("AssetUnavailableError")
    /\ UNCHANGED <<optimized, items, foot, gi, attempts, measured, data, metrics, rows,
                   df, log, files, wopen, written>>

\* line 86: the assertion holds, or the interpreter has compiled the
\* assert statement out (python -O) and nothing is checked
Validate ==
    /\ At("Validating")
    /\ optimized \/ ResolutionOk(BAND_GROUPS[CurGroup].resolution, data)
    /\ Advance
    /\ UNCHANGED <<optimized, items, foot, pc, gi, reason, attempts, measured, data,
                   metrics, rows, df, log, files, wopen, written>>

\* line 86: "Resolution is donked up", when asserts are compiled in
ValidateFail ==
    /\ At("Validating")
    /\ ~optimized
    /\ ~ResolutionOk(BAND_GROUPS[CurGroup].resolution, data)
    /\ Raise("AssertionError")
    /\ UNCHANGED <<optimized, items, foot, gi, attempts, measured, data, metrics, rows,
                   df, log, files, wopen, written>>

\* lines 88-95
Diagnose ==
    /\ At("Diagnosing")
    /\ num_tile_pixels(data) # 0
    /\ NumCells(foot, BAND_GROUPS[CurGroup].zoom) # 0
    /\ LET np == num_pixels(foot.area, BAND_GROUPS[CurGroup].resolution)
       IN  metrics' = [num_pixels |-> np,
                       valid_frac |-> valid_frac(np, num_tile_pixels(data)),
                       ratio |-> ratio(np, NumCells(foot, BAND_GROUPS[CurGroup].zoom))]
    /\ Advance
    /\ UNCHANGED <<optimized, items, foot, pc, gi, reason, attempts, measured, data,
                   rows, df, log, files, wopen, written>>

\* line 91 or line 95: float division by zero
DiagnoseFail ==
    /\ At("Diagnosing")
    /\ \/ num_tile_pixels(data) = 0
       \/ NumCells(foot, BAND_GROUPS[CurGroup].zoom) = 0
    /\ Raise("ZeroDivisionError")
    /\ UNCHANGED <<optimized, items, foot, gi, attempts, measured, data, metrics, rows,
                   df, log, files, wopen, written>>

\* lines 98-112
Bin ==
    /\ At("Binning")
    /\ rows' = BinRows(to_dataframe(data, BAND_GROUPS[CurGroup].bands),
                       BAND_GROUPS[CurGroup].zoom)
    /\ Advance
    /\ UNCHANGED <<optimized, items, foot, pc, gi, reason, attempts, measured, data,
                   metrics, df, log, files, wopen, written>>

\* lines 107-108: the raster's CRS cannot be parsed or transformed
BinFail ==
    /\ At("Binning")
    /\ Raise("ProjectionError")
    /\ UNCHANGED <<optimized, items, foot, gi, attempts, measured, data, metrics, rows,
                   df, log, files, wopen, written>>

\* lines 115-119
Aggregate ==
    /\ At("Aggregating")
    /\ df' = aggregate(rows)
    /\ Advance
    /\ UNCHANGED <<optimized, items, foot, pc, gi, reason, attempts, measured, data,
                   metrics, rows, log, files, wopen, written>>

\* lines 115-119: the groupby, the mean or the cast raises (MemoryError on
\* the frame of every pixel and band)
AggregateFail ==
    /\ At("Aggregating")
    /\ Raise("MemoryError")
    /\ UNCHANGED <<optimized, items, foot, gi, attempts, measured, data, metrics, rows,
                   df, log, files, wopen, written>>

\* line 129 (llcorner and date are the item's, and left out)
Log ==
    /\ At("Logging")
    /\ log' = Append(log, [id |-> items[1], band_group |-> CurGroup,
                           res |-> BAND_GROUPS[CurGroup].resolution,
                           ratio |-> metrics.ratio,
                           valid_frac |-> metrics.valid_frac])
    /\ Advance
    /\ UNCHANGED <<optimized, items, foot, pc, gi, reason, attempts, measured, data,
                   metrics, rows, df, files, wopen, written>>

\* line 129: standard output is closed (BrokenPipeError)
LogFail ==
    /\ At("Logging")
    /\ Raise("BrokenPipeError")
    /\ UNCHANGED <<optimized, items, foot, gi, attempts, measured, data, metrics, rows,
                   df, log, files, wopen, written>>

\* line 133: to_parquet opens its path for writing, which empties it
WriteOpen ==
    /\ At("Writing")
    /\ ~wopen
    /\ wopen' = TRUE
    /\ files' = [files EXCEPT ![OutputPath(items[1], CurGroup)] =
                   [state |-> "partial", unit |-> CurUnit, records |-> <<>>]]
    /\ UNCHANGED <<optimized, items, foot, pc, gi, step, reason, attempts, measured,
                   data, metrics, rows, df, log, written>>

\* line 133: every row is written and the file closed; the loop goes on
WriteFinish ==
    /\ At("Writing")
    /\ wopen
    /\ wopen' = FALSE
    /\ files' = [files EXCEPT ![OutputPath(items[1], CurGroup)] =
                   [state |-> "complete", unit |-> CurUnit, records |-> df]]
    /\ written' = written \cup {CurUnit}
    /\ Advance
    /\ gi' = gi + 1
    /\ UNCHANGED <<optimized, items, foot, pc, reason, attempts, measured, data,
                   metrics, rows, df, log>>

\* line 133: the write fails (disk full, interrupt), before or after the
\* path was opened; what was written so far stays where it is
WriteFail ==
    /\ At("Writing")
    /\ wopen' = FALSE
    /\ Raise("OSError")
    /\ UNCHANGED <<optimized, items, foot, gi, attempts, measured, data, metrics, rows,
                   df, log, files, written>>

\* line 136: breakpoint() after the loop
Breakpoint ==
    /\ pc = "process"
    /\ gi > Len(GroupOrder)
    /\ pc' = "breakpoint"
    /\ UNCHANGED <<optimized, items, foot, gi, step, reason, attempts, measured, data,
                   metrics, rows, df, log, files, wopen, written>>

\* the debugger is told to continue: process_one_item and main return
DebugContinue ==
    /\ pc = "breakpoint"
    /\ pc' = "returned"
    /\ UNCHANGED <<optimized, items, foot, gi, step, reason, attempts, measured, data,
                   metrics, rows, df, log, files, wopen, written>>

\* the debugger is told to quit: BdbQuit leaves main
DebugQuit ==
    /\ pc = "breakpoint"
    /\ pc' = "aborted"
    /\ UNCHANGED <<optimized, items, foot, gi, step, reason, attempts, measured, data,
                   metrics, rows, df, log, files, wopen, written>>

Next ==
    \/ CallProcess
    \/ NoItems
    \/ StartUnit
    \/ Load
    \/ LoadFail
    \/ Validate
    \/ ValidateFail
    \/ Diagnose
    \/ DiagnoseFail
    \/ Bin
    \/ BinFail
    \/ Aggregate
    \/ AggregateFail
    \/ Log
    \/ LogFail
    \/ WriteOpen
    \/ WriteFinish
    \/ WriteFail
    \/ Breakpoint
    \/ DebugContinue
    \/ DebugQuit

Spec == Init /\ [][Next]_vars

RunEnded == pc \in {"returned", "aborted"}

----------------------------------------------------------------------------
(* The aggregation alone: any rows, then lines 115-119 *)

\* pairs that differ in the cell, in the band, and in both
RowKeys == { <<latlng_to_cell(10, 20, 12), "B02">>,
             <<latlng_to_cell(10, 20, 12), "B03">>,
             <<latlng_to_cell(10, 22, 12), "B02">> }
SampleValues == {2467, 2469, 2471, 40000}
RowSet == { [hex |-> k[1], band |-> k[2], value |-> v] :
              k \in RowKeys, v \in SampleValues }

\* the first unit of a tile stands at the step `s`, its raster loaded
Standing(s, d) ==
    /\ optimized = FALSE
    /\ items = <<"T1">>
    /\ pc = "process"
    /\ gi = 1
    /\ step = [u \in Units |-> IF u = <<"T1", GroupOrder[1]>> THEN s ELSE "NotStarted"]
    /\ reason = [u \in Units |-> "none"]
    /\ attempts = [u \in Units |-> IF u = <<"T1", GroupOrder[1]>> THEN 1 ELSE 0]
    /\ measured = [u \in Units |-> IF u = <<"T1", GroupOrder[1]>> THEN d.res ELSE 0]
    /\ data = d
    /\ df = <<>>
    /\ log = <<>>
    /\ files = [p \in Paths |-> NoFile]
    /\ wopen = FALSE
    /\ written = {}

InitAgg ==
    /\ Standing("Aggregating", [res |-> 10, sx |-> 2, sy |-> 2, kind |-> "example"])
    /\ foot = [area |-> 800, ncells |-> [l \in Levels |-> 2]]
    /\ metrics = NoMetrics
    /\ \E n \in 0..MaxRows : rows \in [1..n -> RowSet]

NextAgg ==
    \/ Aggregate
    \/ AggregateFail

SpecAgg == InitAgg /\ [][NextAgg]_vars

----------------------------------------------------------------------------
(* The coverage numbers alone: any scalars, then lines 88-95 *)

DiagAreas == {0, 250, 800, 3200, 60000000, 120000000}
DiagSizes == {<<1200, 1000>>, <<1000, 1000>>, <<4, 2>>, <<0, 2>>}
DiagCells == {0, 2, 7, 300000}

InitDiag ==
    /\ \E s \in DiagSizes :
         Standing("Diagnosing", [res |-> BAND_GROUPS[GroupOrder[1]].resolution,
                                 sx |-> s[1], sy |-> s[2], kind |-> "example"])
    /\ foot \in { [area |-> a, ncells |-> [l \in Levels |-> c]] :
                    a \in DiagAreas, c \in DiagCells }
    /\ metrics = NoMetrics
    /\ rows = <<>>

NextDiag ==
    \/ Diagnose
    \/ DiagnoseFail

SpecDiag == InitDiag /\ [][NextDiag]_vars

----------------------------------------------------------------------------
(* Properties *)

Resolution(u) == BAND_GROUPS[u[2]].resolution

\* the rows of `rs` with the cell and band of record r
Members(rs, r) == { j \in 1..Len(rs) : rs[j].hex = r.hex /\ rs[j].band = r.band }

RECURSIVE SumValues(_, _)
SumValues(rs, J) ==
    IF J = {} THEN 0
    ELSE LET j == CHOOSE x \in J : TRUE
         IN  rs[j].value + SumValues(rs, J \ {j})

\* C7: after the aggregation, df holds exactly one record for each (hex,
\* band) pair that occurs among the rows and no other record, and the
\* record's value is the arithmetic mean of exactly the rows of that pair,
\* as an integer (2469, 2471, 2467, 2469 give 2469).
C7_OneRecordPerPairWithMean ==
    At("Logging") =>
      /\ \A i, j \in 1..Len(df) :
           df[i].hex = df[j].hex /\ df[i].band = df[j].band => i = j
      /\ \A j \in 1..Len(rows) : \E i \in 1..Len(df) : j \in Members(rows, df[i])
      /\ \A i \in 1..Len(df) :
           LET J == Members(rows, df[i])
           IN  /\ J # {}
               /\ df[i].value = TruncDiv(SumValues(rows, J), Cardinality(J))

\* C4: the cast of a mean to the 16-bit output never wraps silently: where
\* the mean of a record's rows lies above 32767 (below -32768) and the unit
\* has not failed, the record holds 32767 (-32768).
C4_CastSaturatesOrFails ==
    \A s \in {"Logging", "Writing"} :
      At(s) =>
        \A i \in 1..Len(df) :
          LET J == Members(rows, df[i])
              sum == SumValues(rows, J)
              n == Cardinality(J)
          IN  /\ sum > Int16Max * n => df[i].value = Int16Max
              /\ sum < Int16Min * n => df[i].value = Int16Min

\* C8: after the coverage numbers are computed, num_pixels is area / res^2,
\* ratio is num_pixels / num_cells and valid_frac is num_pixels /
\* num_tile_pixels, a function of these four scalars alone; an area of
\* 120,000,000 m^2 with 1,200 x 1,000 pixels at 10 m gives 1,200,000
\* pixels and a valid_frac of 1.
C8_CoverageFormulas ==
    At("Binning") =>
      LET area == foot.area
          res == Resolution(CurUnit)
          nc == NumCells(foot, BAND_GROUPS[CurGroup].zoom)
          ntp == data.sx * data.sy
          np == metrics.num_pixels
          vf == metrics.valid_frac
          ra == metrics.ratio
      IN  /\ np[2] > 0 /\ vf[2] > 0 /\ ra[2] > 0
          /\ np[1] * (res * res) = area * np[2]
          /\ ra[1] * (nc * np[2]) = np[1] * ra[2]
          /\ vf[1] * (ntp * np[2]) = np[1] * vf[2]
          /\ (area = 120000000 /\ res = 10 /\ data.sx = 1200 /\ data.sy = 1000)
               => np = <<1200000, 1>> /\ vf = <<1, 1>>

C8_Witness ==
    /\ At("Binning")
    /\ foot.area = 120000000
    /\ data.sx = 1200 /\ data.sy = 1000
    /\ NumCells(foot, BAND_GROUPS[CurGroup].zoom) = 300000
    /\ metrics.num_pixels = <<1200000, 1>>
    /\ metrics.valid_frac = <<1, 1>>
    /\ metrics.ratio = <<4, 1>>

----------------------------------------------------------------------------
(* Properties of the run *)

OtherGroup(g) == CHOOSE h \in GroupNames : h # g

\* C1: a failure of unit (tile, g1) is a failure of that unit alone: when
\* the run is over and (tile, g1) has failed, the other band group of the
\* same tile has been processed all the same.
C1_FailureIsolatedToUnit ==
    RunEnded =>
      \A u \in Units :
        step[u] = "Failed" => step[<<u[1], OtherGroup(u[2])>>] # "NotStarted"

\* C2: the output of a unit that was written stays where it was written:
\* its location holds its complete file, whatever other units have written
\* since.
C2_WrittenOutputKept ==
    \A u \in written :
      /\ files[OutputPath(u[1], u[2])].state = "complete"
      /\ files[OutputPath(u[1], u[2])].unit = u

\* C3: when the run has come to its end, every unit of tiles x band groups
\* has an outcome, success or failure; none was skipped.
C3_EveryUnitHasOutcome ==
    pc = "returned" =>
      \A i \in 1..Len(items) : \A g \in GroupNames :
        step[<<items[i], g>>] \in {"Done", "Failed"}

\* C5: the final location of a unit that is no longer being written (the
\* unit is done or has failed) holds no file or a complete file, never a
\* partly written one.
C5_NoPartialOutputLeft ==
    \A u \in Units :
      step[u] \in {"Done", "Failed"} =>
        files[OutputPath(u[1], u[2])].state # "partial"

\* C6: when the run is over, a unit that failed with AssetUnavailableError
\* has been attempted again, and a unit that failed with any other error
\* has been attempted once.
C6_TransientFailureRetried ==
    RunEnded =>
      \A u \in Units :
        /\ reason[u] = "AssetUnavailableError" => attempts[u] > 1
        /\ reason[u] \notin {"none", "AssetUnavailableError"} => attempts[u] = 1

\* the successor steps as C9 states them (the printing of the log line,
\* which the claim does not name, may come before the write)
ClaimedSuccessors ==
    { <<"NotStarted", "Loading">>, <<"Loading", "Validating">>,
      <<"Validating", "Binning">>, <<"Binning", "Aggregating">>,
      <<"Aggregating", "Diagnosing">>, <<"Diagnosing", "Logging">>,
      <<"Diagnosing", "Writing">>, <<"Logging", "Writing">>,
      <<"Writing", "Done">> }

\* C9: every unit goes through Loading, Validating, Binning, Aggregating,
\* Diagnosing, Writing, Done in this order, the coverage numbers computed
\* after the
\* aggregation and not before the binning; from any step but Done and
\* Failed the unit can go to Failed instead, and from there nowhere.
C9_StepsInClaimedOrder ==
    [][ \A u \in Units :
          step'[u] # step[u] =>
            \/ <<step[u], step'[u]>> \in ClaimedSuccessors
            \/ step[u] \notin {"Done", "Failed"} /\ step'[u] = "Failed" ]_vars

LogLines(u) == { i \in 1..Len(log) : log[i].id = u[1] /\ log[i].band_group = u[2] }

\* to_parquet has opened, or filled, the file of unit u
WriteBegun(u) ==
    \/ u \in written
    \/ /\ files[OutputPath(u[1], u[2])].state # "absent"
       /\ files[OutputPath(u[1], u[2])].unit = u

\* C10: a unit's file is written only after its resolution assertion has
\* passed and its log line was printed: a unit whose write has begun has
\* the resolution of its band group and exactly one log line, and a unit
\* whose assertion failed has no file and no log line.
C10_WriteAfterCheckAndLog ==
    \A u \in Units :
      /\ WriteBegun(u) =>
           /\ measured[u] = Resolution(u)
           /\ Cardinality(LogLines(u)) = 1
      /\ (step[u] = "Failed" /\ measured[u] # Resolution(u)) =>
           /\ ~WriteBegun(u)
           /\ LogLines(u) = {}

====
